---- MODULE Spec2Model ----
(***************************************************************************)
(* A model of webhook.py, the fulfillment webhook of CourseSensei: the     *)
(* path resolver (get_nested_property), the cached entity resolvers        *)
(* (get_course, get_instructor), the query handlers, the intent dispatch   *)
(* table and the pagination of list results.                               *)
(*                                                                         *)
(* Text.  A Python str is a sequence of atoms.  A value that comes from    *)
(* the ontology or from the request is spelled character by character      *)
(* (<<"N","A">>); a literal fragment of a template is one atom             *)
(* ("I couldn't find ").  No template fragment contains the characters of  *)
(* a data value used below, so searching a text for a data value atom by   *)
(* atom is the search Python does character by character.                  *)
(*                                                                         *)
(* Objects.  What an attribute of an ontology individual can hold: None,   *)
(* a str, a list, or another individual (a node with named relations).     *)
(***************************************************************************)
EXTENDS Integers, Sequences, FiniteSets, TLC

VARIABLES
    onto,          \* the loaded ontology: a sequence of individuals (read-only)
    course_cache,  \* lru_cache of get_course: entries, least recently used first
    instr_cache,   \* lru_cache of get_instructor: entries, least recently used first
    hist,          \* resolver calls made so far: <<resolver, raw string>>, oldest first
    call,          \* the last direct resolver call and what it did
    request,       \* the last request the webhook received
    response,      \* the webhook's answer to it
    np,            \* get_nested_property called on its own: input and result
    session        \* the output contexts the dialogue platform holds for the next turn

vars == <<onto, course_cache, instr_cache, hist, call, request, response, np,
          session>>

----------------------------------------------------------------------------
(* Bounds of the model *)

\* longest path given to get_nested_property on its own
MaxSegments == 3
\* most session plans, instructor details and assessments a course of the
\* list-query ontologies has
MaxItems == 7
\* most direct resolver calls followed from an initial state
MaxCalls == 2
\* most items of a list relation in the ontologies every intent is served on
SmallItems == 2
\* most assessments of a course in the ontologies of the highest-weight query
MaxAssessments == 3

----------------------------------------------------------------------------
(* Configuration: webhook.py lines 19-26 *)

PAGE_SIZE == 3
MAX_INPUT_LENGTH == 50

----------------------------------------------------------------------------
(* Python values *)

NoneV == [t |-> "none"]
S(s) == [t |-> "str", s |-> s]
L(xs) == [t |-> "list", items |-> xs]
\* an individual: its name (the fragment of its IRI), its class, its relations
N(name, kind, rel) == [t |-> "node", name |-> name, kind |-> kind, rel |-> rel]
R(n, v) == [n |-> n, v |-> v]

NA == <<"N", "A">>

IsList(o) == o.t = "list"

\* Python truthiness: None, "" and [] are falsy
Truthy(o) ==
    CASE o.t = "none" -> FALSE
      [] o.t = "str" -> o.s # <<>>
      [] o.t = "list" -> o.items # <<>>
      [] OTHER -> TRUE

\* hasattr(obj, prop): only an individual has relations
hasattr(o, prop) == o.t = "node" /\ \E i \in 1..Len(o.rel) : o.rel[i].n = prop

getattr(o, prop) ==
    LET i == CHOOSE j \in 1..Len(o.rel) :
                 o.rel[j].n = prop /\ \A k \in 1..(j - 1) : o.rel[k].n # prop
    IN o.rel[i].v

\* getattr(obj, prop, default)
getattr_or(o, prop, default) == IF hasattr(o, prop) THEN getattr(o, prop) ELSE default

\* "obj not in [None, "NA"]"
NotNoneOrNA(o) == ~(o.t = "none" \/ (o.t = "str" /\ o.s = NA))

\* The loop of get_nested_property from segment i on.  Returns the object
\* reached, or NoneV where the code returns None early.
RECURSIVE np_walk(_, _, _)
np_walk(obj, properties, i) ==
    IF i > Len(properties)
    THEN [early |-> FALSE, obj |-> obj]
    ELSE IF IsList(obj) /\ obj.items = <<>>
    THEN [early |-> TRUE, obj |-> NoneV]
    ELSE LET o == IF IsList(obj) THEN obj.items[1] ELSE obj
         IN IF ~hasattr(o, properties[i])
            THEN [early |-> TRUE, obj |-> NoneV]
            ELSE np_walk(getattr(o, properties[i]), properties, i + 1)

\* What a list-valued final relation yields (line 60)
np_final_list(obj) == IF obj.items # <<>> THEN obj.items[1] ELSE NoneV

\* line 61 without the test for the sentinel
np_final_scalar_any(obj) == obj

\* What a single-valued final relation yields (line 61)
np_final_scalar(obj) == IF NotNoneOrNA(obj) THEN obj ELSE NoneV

\* get_nested_property(obj, property_path); property_path is given already
\* split on "."
get_nested_property(obj, properties) ==
    LET w == np_walk(obj, properties, 1)
    IN IF w.early THEN NoneV
       ELSE IF IsList(w.obj) THEN np_final_list(w.obj)
       ELSE np_final_scalar(w.obj)

----------------------------------------------------------------------------
(* Characters and strings *)

LowerSeq == <<"a","b","c","d","e","f","g","h","i","j","k","l","m",
              "n","o","p","q","r","s","t","u","v","w","x","y","z">>
UpperSeq == <<"A","B","C","D","E","F","G","H","I","J","K","L","M",
              "N","O","P","Q","R","S","T","U","V","W","X","Y","Z">>
DigitSeq == <<"0","1","2","3","4","5","6","7","8","9">>

Range(f) == {f[i] : i \in DOMAIN f}

LowerChars == Range(LowerSeq)
UpperChars == Range(UpperSeq)
DigitChars == Range(DigitSeq)

IsLetter(c) == c \in LowerChars \/ c \in UpperChars
IsDigit(c) == c \in DigitChars
\* the regular expression class \w: letters, digits and the underscore
IsWordChar(c) == IsLetter(c) \/ IsDigit(c) \/ c = "_"
\* the regular expression class \s
IsSpaceChar(c) == c \in {" ", "\t", "\n", "\r", "\f"}

\* str.lower() on one character
lower_char(c) ==
    IF c \in UpperChars
    THEN LowerSeq[CHOOSE i \in DOMAIN UpperSeq : UpperSeq[i] = c]
    ELSE c

lower(s) == [i \in 1..Len(s) |-> lower_char(s[i])]

\* str.strip(): leading and trailing whitespace removed
strip(s) ==
    LET keep == {i \in 1..Len(s) : ~IsSpaceChar(s[i])}
    IN IF keep = {} THEN <<>>
       ELSE LET lo == CHOOSE i \in keep : \A j \in keep : i <= j
                hi == CHOOSE i \in keep : \A j \in keep : j <= i
            IN SubSeq(s, lo, hi)

\* re.sub(r'\W+', '_', s): every maximal run of non-word characters becomes "_"
RECURSIVE sub_nonword(_, _)
sub_nonword(s, i) ==
    IF i > Len(s) THEN <<>>
    ELSE IF IsWordChar(s[i]) THEN <<s[i]>> \o sub_nonword(s, i + 1)
    ELSE IF i > 1 /\ ~IsWordChar(s[i - 1]) THEN sub_nonword(s, i + 1)
    ELSE <<"_">> \o sub_nonword(s, i + 1)

\* sanitize_id(name), lines 34-36
sanitize_id(name) == sub_nonword(lower(strip(name)), 1)

\* the regular expression ^[\w\s-]+$ of line 42
validate_chars(value) ==
    \A i \in 1..Len(value) :
        IsWordChar(value[i]) \/ IsSpaceChar(value[i]) \/ value[i] = "-"

\* validate_input without the test of the length
validate_input_any_length(value) ==
    /\ value # <<>>
    /\ validate_chars(value)

\* validate_input(value), lines 38-42
validate_input(value) ==
    /\ value # <<>>
    /\ ~(Len(value) > MAX_INPUT_LENGTH)
    /\ validate_chars(value)

\* str(n) for a natural number
RECURSIVE IntStr(_)
IntStr(n) == IF n < 10 THEN <<DigitSeq[n + 1]>>
             ELSE IntStr(n \div 10) \o <<DigitSeq[(n % 10) + 1]>>

\* s * n
RECURSIVE Rep(_, _)
Rep(s, n) == IF n = 0 THEN <<>> ELSE s \o Rep(s, n - 1)

\* needle in text (both sequences of atoms)
Contains(text, needle) ==
    \E i \in 0..(Len(text) - Len(needle)) :
        \A j \in 1..Len(needle) : text[i + j] = needle[j]

\* sep.join(parts)
RECURSIVE join(_, _)
join(sep, parts) ==
    IF parts = <<>> THEN <<>>
    ELSE IF Len(parts) = 1 THEN parts[1]
    ELSE parts[1] \o sep \o join(sep, Tail(parts))

\* str(value) of an attribute value; an individual prints as its name
Str(o) ==
    CASE o.t = "none" -> <<"N", "o", "n", "e">>
      [] o.t = "str" -> o.s
      [] o.t = "node" -> o.name
      [] OTHER -> <<"[...]">>

----------------------------------------------------------------------------
(* The ontology accessor (owlready2), as webhook.py uses it *)

\* onto.search(iri="*#<id>"): the individuals whose IRI ends in #<id>
search_iri(id) ==
    LET hits == {i \in 1..Len(onto) : onto[i].name = id}
    IN IF hits = {} THEN <<>>
       ELSE <<onto[CHOOSE i \in hits : \A j \in hits : i <= j]>>

\* onto.search(Instructors=value): the individuals whose Instructors is value
search_Instructors(value) ==
    LET hits == {i \in 1..Len(onto) :
                    /\ hasattr(onto[i], "Instructors")
                    /\ getattr(onto[i], "Instructors") = S(value)}
    IN IF hits = {} THEN <<>>
       ELSE <<onto[CHOOSE i \in hits : \A j \in hits : i <= j]>>

\* next(iter(results), None)
first_or_none(results) == IF results = <<>> THEN NoneV ELSE results[1]

----------------------------------------------------------------------------
(* Cached data access, lines 73-102 *)

COURSE_CACHE_MAXSIZE == 100
INSTRUCTOR_CACHE_MAXSIZE == 50

\* position of key in an lru_cache, 0 when it is not cached
lru_find(cache, key) ==
    IF \E i \in 1..Len(cache) : cache[i].key = key
    THEN CHOOSE i \in 1..Len(cache) : cache[i].key = key
    ELSE 0

\* a hit that leaves the order alone (first in, first out)
lru_hit_keep(cache, i) == cache

\* a hit makes the entry the most recently used one
lru_hit(cache, i) ==
    SubSeq(cache, 1, i - 1) \o SubSeq(cache, i + 1, Len(cache)) \o <<cache[i]>>

\* a miss stores the result; a full cache drops its least recently used entry
lru_store(cache, entry, maxsize) ==
    IF Len(cache) >= maxsize THEN Append(Tail(cache), entry)
    ELSE Append(cache, entry)

\* functools.lru_cache around a one-argument function: body is what the
\* function computes for key, [val, searched]
lru_call(cache, key, maxsize, body) ==
    LET i == lru_find(cache, key)
    IN IF i > 0
       THEN [cache |-> lru_hit(cache, i), val |-> cache[i].val,
             hit |-> TRUE, searched |-> FALSE]
       ELSE [cache |-> lru_store(cache, [key |-> key, val |-> body.val], maxsize),
             val |-> body.val, hit |-> FALSE, searched |-> body.searched]

\* the body of get_course, lines 76-80
get_course_body(course_name) ==
    IF ~validate_input(course_name)
    THEN [val |-> NoneV, searched |-> FALSE]
    ELSE [val |-> first_or_none(search_iri(sanitize_id(course_name))),
          searched |-> TRUE]

\* the body of get_instructor, lines 85-88
get_instructor_body(instructor_name) ==
    IF ~validate_input(instructor_name)
    THEN [val |-> NoneV, searched |-> FALSE]
    ELSE [val |-> first_or_none(search_Instructors(strip(instructor_name))),
          searched |-> TRUE]

get_course(course_name) ==
    lru_call(course_cache, course_name, COURSE_CACHE_MAXSIZE,
             get_course_body(course_name))

get_instructor(instructor_name) ==
    lru_call(instr_cache, instructor_name, INSTRUCTOR_CACHE_MAXSIZE,
             get_instructor_body(instructor_name))

\* get_course_metadata(course), lines 90-95: AttributeError and IndexError
\* give None
get_course_metadata(course) ==
    IF ~hasattr(course, "hasCourseMetadata") THEN NoneV
    ELSE LET m == getattr(course, "hasCourseMetadata")
         IN IF IsList(m) /\ m.items # <<>> THEN m.items[1] ELSE NoneV

----------------------------------------------------------------------------
(* Request parameters (a dict), response texts and templates *)

\* a dict is a sequence of items R(key, value) in insertion order
HasKey(d, k) == \E i \in 1..Len(d) : d[i].n = k

\* d.get(k): None when the key is missing
Get(d, k) ==
    IF HasKey(d, k) THEN d[CHOOSE i \in 1..Len(d) : d[i].n = k].v ELSE NoneV

\* d.get(k, ""): the text of a string parameter
GetStr(d, k) == IF HasKey(d, k) THEN Str(Get(d, k)) ELSE <<>>

\* d[k] = v
SetKey(d, k, v) ==
    IF HasKey(d, k)
    THEN [i \in 1..Len(d) |-> IF d[i].n = k THEN R(k, v) ELSE d[i]]
    ELSE Append(d, R(k, v))

IntV(i) == [t |-> "int", i |-> i]

\* a handler returns a text or raises
Ok(text) == [raised |-> FALSE, text |-> text]
Raised == [raised |-> TRUE, text |-> <<>>]

\* ERROR_TEMPLATES, lines 19-24
not_found(entity, name) ==
    <<"I couldn't find ">> \o entity \o <<" '">> \o name \o <<"'.">>

no_data(data_type, entity, name) ==
    <<"No ">> \o data_type \o <<" available for ">> \o entity
        \o <<" '">> \o name \o <<"'.">>

pagination(current, total) ==
    <<"\n\n(Page ">> \o IntStr(current) \o <<"/">> \o IntStr(total)
        \o <<" - Say 'next page' or 'previous page')">>

\* the catch-all text in the place of the text for an unknown intent
UNSUPPORTED_as_error == <<"Sorry, I encountered an error processing your request.">>

UNSUPPORTED == <<"This query type is not supported yet.">>
INTERNAL_ERROR == <<"Sorry, I encountered an error processing your request.">>

\* the items of a list-valued relation of an individual ([] when it has none)
Items(o, prop) ==
    LET v == getattr_or(o, prop, L(<<>>))
    IN IF IsList(v) THEN v.items ELSE <<>>

\* a single-valued attribute of an individual (None when it has none)
Attr(o, prop) == getattr_or(o, prop, NoneV)

\* [x for x in xs if ...]: the items of xs at the indices kept, in order
Filter(xs, kept) ==
    LET nth(k) == CHOOSE i \in kept : Cardinality({j \in kept : j < i}) = k - 1
    IN [k \in 1..Cardinality(kept) |-> xs[nth(k)]]

\* the name of a relation spelled by a string (a path segment taken from input)
RECURSIVE AtomOf(_)
AtomOf(s) == IF s = <<>> THEN "" ELSE s[1] \o AtomOf(Tail(s))

----------------------------------------------------------------------------
(* Pagination, lines 66-68 *)

Min(a, b) == IF a < b THEN a ELSE b
Max(a, b) == IF a > b THEN a ELSE b

\* range(0, len(items), page_size)
page_starts(n, page_size) == {i \in 0..(n - 1) : i % page_size = 0}

\* paginate_items with the slice one item too long (items[i:i+page_size+1])
paginate_items_long(items, page_size) ==
    LET n == Cardinality(page_starts(Len(items), page_size))
    IN [k \in 1..n |->
           SubSeq(items, (k - 1) * page_size + 1,
                  Min(Len(items), k * page_size + 1))]

\* paginate_items(items, page_size): the chunk starting at 0, page_size, ...
paginate_items(items, page_size) ==
    LET n == Cardinality(page_starts(Len(items), page_size))
    IN [k \in 1..n |->
           SubSeq(items, (k - 1) * page_size + 1,
                  Min(Len(items), k * page_size))]

\* the index shown, line 432
clamp_page(page, npages) == Max(0, Min(page, npages - 1))

----------------------------------------------------------------------------
(* Generic handlers, lines 404-436 *)

CourseName(params) == GetStr(params, "courseName")

\* handle_standard_query(params, property_path, data_type)
handle_standard_query(params, property_path, data_type) ==
    LET course == get_course(CourseName(params)).val
        value == get_nested_property(course, property_path)
    IN IF ~Truthy(course)
       THEN Ok(not_found(<<"course">>, Str(Get(params, "courseName"))))
       ELSE IF ~Truthy(value)
       THEN Ok(no_data(data_type, <<"course">>, Str(Get(params, "courseName"))))
       ELSE Ok(Str(value))

(* The formatters of the list intents, lines 455, 461 and 466 *)

\* lambda i: get_nested_property(i, "Instructors")
format_instructor(i) == get_nested_property(i, <<"Instructors">>)

\* lambda s: f"Session {s.Session}: {s.Module} - {s.Topic}"
format_topic(s) ==
    S(<<"Session ">> \o Str(Attr(s, "Session")) \o <<": ">>
      \o Str(Attr(s, "Module")) \o <<" - ">> \o Str(Attr(s, "Topic")))

\* lambda a: a.AssessmentTool
format_tool(a) == Attr(a, "AssessmentTool")

\* format_func(item), format_func being the name of one of the lambdas
call_format(format_func, item) ==
    CASE format_func = "format_instructor" -> format_instructor(item)
      [] format_func = "format_topic" -> format_topic(item)
      [] format_func = "format_tool" -> format_tool(item)

\* lines 417-427: the items of a list query
list_items(course, property_path, format_func) ==
    LET results == Items(course, property_path[1])
        rest == Tail(property_path)
        nested(item) == get_nested_property(item, rest)
        valued == Filter(results, {i \in 1..Len(results) : Truthy(nested(results[i]))})
        truthy == Filter(results, {i \in 1..Len(results) : Truthy(results[i])})
    IN IF rest # <<>>
       THEN [k \in 1..Len(valued) |-> call_format(format_func, nested(valued[k]))]
       ELSE [k \in 1..Len(truthy) |-> call_format(format_func, truthy[k])]

\* lines 428-436: the page of items shown; "\n".join raises on a None item
list_page(items, page, items_name, name) ==
    LET pages == paginate_items(items, PAGE_SIZE)
        shown == clamp_page(page, Len(pages))
    IN IF pages = <<>>
       THEN Ok(no_data(items_name, <<"course">>, name))
       ELSE IF \E i \in 1..Len(pages[shown + 1]) : pages[shown + 1][i].t # "str"
       THEN Raised
       ELSE LET body == join(<<"\n">>,
                             [i \in 1..Len(pages[shown + 1]) |-> pages[shown + 1][i].s])
            IN IF Len(pages) > 1
               THEN Ok(body \o pagination(shown + 1, Len(pages)))
               ELSE Ok(body)

\* handle_list_query(params, property_path, items_name, format_func)
handle_list_query(params, property_path, items_name, format_func) ==
    LET course == get_course(CourseName(params)).val
    IN IF ~Truthy(course)
       THEN Ok(not_found(<<"course">>, Str(Get(params, "courseName"))))
       ELSE list_page(list_items(course, property_path, format_func),
                      Get(params, "page").i, items_name,
                      Str(Get(params, "courseName")))

----------------------------------------------------------------------------
(* Numbers in strings *)

DigitVal(c) == (CHOOSE i \in DOMAIN DigitSeq : DigitSeq[i] = c) - 1

IsDigits(s) == s # <<>> /\ \A i \in 1..Len(s) : IsDigit(s[i])

\* int(s) for a string of digits
RECURSIVE StrToInt(_)
StrToInt(s) ==
    IF s = <<>> THEN 0
    ELSE 10 * StrToInt(SubSeq(s, 1, Len(s) - 1)) + DigitVal(s[Len(s)])

RECURSIVE Pow10(_)
Pow10(k) == IF k = 0 THEN 1 ELSE 10 * Pow10(k - 1)

\* the end of the run of digits that starts at i (i - 1 when there is none)
RECURSIVE digits_end(_, _)
digits_end(s, i) ==
    IF i <= Len(s) /\ IsDigit(s[i]) THEN digits_end(s, i + 1) ELSE i - 1

\* re.search(r'(\d+\.?\d*)', s) followed by float(match.group(1)): the number
\* num / den, or found = FALSE when s holds no digit
first_number(s) ==
    LET starts == {i \in 1..Len(s) : IsDigit(s[i])}
    IN IF starts = {} THEN [found |-> FALSE, num |-> 0, den |-> 1]
       ELSE LET b == CHOOSE i \in starts : \A j \in starts : i <= j
                e == digits_end(s, b)
                dot == e + 1 <= Len(s) /\ s[e + 1] = "."
                f == IF dot THEN digits_end(s, e + 2) ELSE e
                frac == IF dot THEN SubSeq(s, e + 2, f) ELSE <<>>
            IN [found |-> TRUE,
                num |-> StrToInt(SubSeq(s, b, e) \o frac),
                den |-> Pow10(Len(frac))]

\* a >= b: the comparison that lets a later equal weight win
NumGreaterOrEqual(a, b) == a.num * b.den >= b.num * a.den

\* a > b for two such numbers
NumGreater(a, b) == a.num * b.den > b.num * a.den

\* the digits of k, at least width of them
RECURSIVE Pad(_, _)
Pad(k, width) ==
    IF width <= 1 THEN IntStr(k)
    ELSE IF k < Pow10(width - 1) THEN <<"0">> \o Pad(k, width - 1)
    ELSE IntStr(k)

RECURSIVE strip_zeros(_)
strip_zeros(s) ==
    IF Len(s) > 1 /\ s[Len(s)] = "0" THEN strip_zeros(SubSeq(s, 1, Len(s) - 1))
    ELSE s

\* str(x) of the float num / den: "50.5", "30.0"
FloatStr(x) ==
    LET k == Len(IntStr(x.den)) - 1
    IN IntStr(x.num \div x.den) \o <<".">>
       \o (IF k = 0 THEN <<"0">> ELSE strip_zeros(Pad(x.num % x.den, k)))

\* sorted(xs, key=lambda x: int(x.Session)): a stable sort
sorted_by_session(xs) ==
    LET key(i) == StrToInt(Attr(xs[i], "Session").s)
        before(j, i) == key(j) < key(i) \/ (key(j) = key(i) /\ j < i)
        at(k) == CHOOSE i \in 1..Len(xs) :
                     Cardinality({j \in 1..Len(xs) : before(j, i)}) = k - 1
    IN [k \in 1..Len(xs) |-> xs[at(k)]]

\* int(x.Session) succeeds
IntOk(o) == o.t = "str" /\ IsDigits(o.s)

\* s.split('_')[-1]
last_piece(s) ==
    LET us == {i \in 1..Len(s) : s[i] = "_"}
    IN IF us = {} THEN s
       ELSE SubSeq(s, (CHOOSE i \in us : \A j \in us : j <= i) + 1, Len(s))

\* the orders in which a set of strings may be iterated
Orders(set) ==
    {q \in [1..Cardinality(set) -> set] :
        \A i, j \in 1..Cardinality(set) : i # j => q[i] # q[j]}

SeqRange(q) == {q[i] : i \in 1..Len(q)}

----------------------------------------------------------------------------
(* Query handlers, lines 109-399 (those the dispatch table names, and       *)
(* query_course_credits)                                                   *)

InstructorName(params) == GetStr(params, "instructorName")

\* CourseCodeTitle of each course that has one (lines 221-224, 291-294, 376-378)
course_titles(courses) ==
    LET title(c) == Attr(get_course_metadata(c), "CourseCodeTitle")
        has_title(c) == Truthy(get_course_metadata(c)) /\ Truthy(title(c))
        titled == Filter(courses, {i \in 1..Len(courses) : has_title(courses[i])})
    IN [k \in 1..Len(titled) |-> Str(title(titled[k]))]

\* lines 119-126
query_program_for_course(params) ==
    LET course == get_course(CourseName(params)).val
        terms == Items(course, "belongsToTerm")
        programs == Items(terms[1], "belongsToProgram")
    IN IF Truthy(course) /\ terms # <<>> /\ Truthy(terms[1]) /\ programs # <<>>
       THEN Ok(<<"Taught in ">> \o Str(Attr(programs[1], "programName"))
               \o <<" program.">>)
       ELSE Ok(<<"Program not found.">>)

\* lines 129-137
query_term_for_course_program(params) ==
    LET course == get_course(CourseName(params)).val
        program_param == sanitize_id(GetStr(params, "program"))
        mine == {t.name : t \in SeqRange(Items(course, "belongsToTerm"))}
        match(i) ==
            /\ onto[i].kind = "Term"
            /\ onto[i].name \in mine
            /\ Items(onto[i], "belongsToProgram") # <<>>
            /\ Contains(Items(onto[i], "belongsToProgram")[1].name, program_param)
        hits == {i \in 1..Len(onto) : match(i)}
    IN IF Truthy(course) /\ hits # {}
       THEN Ok(<<"Term ">>
               \o last_piece(onto[CHOOSE i \in hits : \A j \in hits : i <= j].name))
       ELSE Ok(<<"Course not found in program.">>)

\* lines 150-165
query_assessment_percentage(params) ==
    LET course == get_course(CourseName(params)).val
        tool_name == GetStr(params, "assessmentTool")
        as == Items(course, "hasAssessment")
        match(i) == /\ Truthy(Attr(as[i], "AssessmentTool"))
                    /\ lower(Str(Attr(as[i], "AssessmentTool"))) = lower(tool_name)
        hits == {i \in 1..Len(as) : match(i)}
        a == as[CHOOSE i \in hits : \A j \in hits : i <= j]
    IN IF ~(Truthy(course) /\ as # <<>>)
       THEN Ok(not_found(<<"course">>, Str(Get(params, "courseName"))))
       ELSE IF hits = {}
       THEN Ok(not_found(<<"assessment tool">>, tool_name))
       ELSE IF Truthy(Attr(a, "Percentage"))
       THEN Ok(Str(Attr(a, "Percentage")) \o <<"%">>)
       ELSE Ok(no_data(<<"assessment percentage">>, <<"course">>,
                       Str(Get(params, "courseName"))))

\* lines 168-173 (no intent dispatches to it)
query_course_credits(params) ==
    LET meta == get_course_metadata(get_course(CourseName(params)).val)
    IN IF Truthy(meta) /\ Truthy(Attr(meta, "CourseCredit"))
       THEN Ok(Str(Attr(meta, "CourseCredit")) \o <<" credits.">>)
       ELSE Ok(<<"Credit info unavailable.">>)

\* s.replace(old, new) from position i on: occurrences left to right, none
\* overlapping
RECURSIVE replace(_, _, _, _)
replace(s, old, new, i) ==
    IF i > Len(s) THEN <<>>
    ELSE IF i + Len(old) - 1 <= Len(s) /\ SubSeq(s, i, i + Len(old) - 1) = old
    THEN new \o replace(s, old, new, i + Len(old))
    ELSE <<s[i]>> \o replace(s, old, new, i + 1)

\* lines 176-184 (no intent dispatches to it); the separators are spelled
\* character by character, as replace reads them
query_session_info(params) ==
    LET course == get_course(CourseName(params)).val
        session_num == GetStr(params, "sessionNumber")
        plans == Items(course, "hasSessionPlan")
        hits == {i \in 1..Len(plans) : Str(Attr(plans[i], "Session")) = session_num}
        session_plan == plans[CHOOSE i \in hits : \A j \in hits : i <= j]
        details == <<"Module: ">> \o Str(Attr(session_plan, "Module"))
                   \o <<",", " ", "Topic: ">> \o Str(Attr(session_plan, "Topic"))
                   \o <<",", " ", "Materials: ">>
                   \o Str(Attr(session_plan, "ReadingMaterial"))
    IN IF Truthy(course) /\ hits # {}
       THEN Ok(replace(replace(details, <<"N", "A", ",", " ">>, <<>>, 1),
                       NA, <<>>, 1))
       ELSE Ok(<<"Session information not found.">>)

\* lines 206-211
query_contact_instructor(params) ==
    LET inst == get_instructor(InstructorName(params)).val
    IN IF Truthy(inst) /\ Truthy(Attr(inst, "ContactDetails"))
       THEN Ok(<<"Contact: ">> \o Str(Attr(inst, "ContactDetails"))
               \o <<", Consultation Hours: ">>
               \o Str(Attr(inst, "ConsultationHours")))
       ELSE Ok(not_found(<<"instructor">>, InstructorName(params)))

\* lines 214-228
query_courses_by_instructor(params) ==
    LET inst == get_instructor(InstructorName(params)).val
        titles == course_titles(Items(inst, "teachesCourse"))
    IN IF ~(Truthy(inst) /\ hasattr(inst, "teachesCourse"))
       THEN Ok(not_found(<<"instructor">>, InstructorName(params)))
       ELSE IF titles # <<>>
       THEN Ok(InstructorName(params) \o <<" teaches: ">>
               \o join(<<", ">>, titles) \o <<".">>)
       ELSE Ok(no_data(<<"courses">>, <<"instructor">>, InstructorName(params)))

\* lines 267-277
query_assessment_details_full(params) ==
    LET course == get_course(CourseName(params)).val
        as == Items(course, "hasAssessment")
        or_else(v, d) == IF Truthy(v) THEN Str(v) ELSE d
        line(a) == or_else(Attr(a, "AssessmentTool"), <<"Unknown Tool">>)
                   \o <<" (">>
                   \o or_else(Attr(a, "Percentage"), <<"Unknown Percentage">>)
                   \o <<"%): ">>
                   \o or_else(Attr(a, "AssessmentDescription"), <<>>)
    IN IF Truthy(course) /\ as # <<>>
       THEN Ok(<<"Assessment details:\n">>
               \o join(<<"\n">>, [i \in 1..Len(as) |-> line(as[i])]))
       ELSE Ok(<<"No assessment details available.">>)

\* lines 280-297
query_courses_in_program_term(params) ==
    LET program_param == sanitize_id(GetStr(params, "program"))
        term_param == sanitize_id(GetStr(params, "term"))
        progs == search_iri(program_param)
        terms == Items(progs[1], "hasTerm")
        hits == {i \in 1..Len(terms) : Contains(terms[i].name, term_param)}
        term == terms[CHOOSE i \in hits : \A j \in hits : i <= j]
        found == course_titles(Items(term, "hasCourse"))
    IN IF progs # <<>> /\ hits # {} /\ found # <<>>
       THEN Ok(<<"Courses offered in ">> \o Str(Get(params, "program"))
               \o <<" during term ">> \o Str(Get(params, "term")) \o <<": ">>
               \o join(<<", ">>, found) \o <<".">>)
       ELSE Ok(<<"No courses found for the specified program and term.">>)

\* the Instructors of the instructor details of a sequence of courses
instructors_of(courses) ==
    {Str(Attr(ins, "Instructors")) :
        ins \in {d \in UNION {SeqRange(Items(c, "hasInstructorDetails")) :
                               c \in SeqRange(courses)} :
                    Truthy(Attr(d, "Instructors"))}}

\* lines 300-323; the text joins a set, whose order Python does not fix
query_instructors_in_program_term(params) ==
    LET progs == search_iri(sanitize_id(GetStr(params, "program")))
        terms == search_iri(sanitize_id(GetStr(params, "term")))
        in_program ==
            IF progs = <<>> THEN {}
            ELSE UNION {instructors_of(Items(t, "hasCourse")) :
                           t \in SeqRange(Items(progs[1], "hasTerm"))}
        in_term ==
            IF terms = <<>> THEN {} ELSE instructors_of(Items(terms[1], "hasCourse"))
        instructors_set ==
            IF HasKey(params, "program") THEN in_program
            ELSE IF HasKey(params, "term") THEN in_term
            ELSE {}
        \* params.get("program") or params.get("term")
        named == IF Truthy(Get(params, "program")) THEN Get(params, "program")
                 ELSE Get(params, "term")
    IN IF instructors_set # {}
       THEN {Ok(<<"Instructors: ">> \o join(<<", ">>, q)) :
                q \in Orders(instructors_set)}
       ELSE {Ok(no_data(<<"instructors">>, <<"program/term">>, Str(named)))}

\* lines 334-341: the loop over the assessments from position i on
RECURSIVE highest_scan(_, _, _)
highest_scan(as, i, highest) ==
    IF i > Len(as) THEN highest
    ELSE LET percentage_str ==
                 IF Truthy(Attr(as[i], "Percentage"))
                 THEN Str(Attr(as[i], "Percentage")) ELSE <<>>
             perc == first_number(percentage_str)
         IN IF ~perc.found THEN highest_scan(as, i + 1, highest)
            ELSE IF ~highest.set \/ NumGreater(perc, highest.perc)
            THEN highest_scan(as, i + 1,
                     [set |-> TRUE, perc |-> perc,
                      tool |-> Attr(as[i], "AssessmentTool")])
            ELSE highest_scan(as, i + 1, highest)

NoHighest == [set |-> FALSE, perc |-> [found |-> FALSE, num |-> 0, den |-> 1],
              tool |-> NoneV]

\* lines 328-345
query_highest_assessment_tool(params) ==
    LET course == get_course(CourseName(params)).val
        as == Items(course, "hasAssessment")
        highest == highest_scan(as, 1, NoHighest)
    IN IF Truthy(course) /\ as # <<>> /\ highest.set
       THEN Ok(<<"Highest weighted assessment tool: ">> \o Str(highest.tool)
               \o <<" (">> \o FloatStr(highest.perc) \o <<"%).">>)
       ELSE Ok(no_data(<<"assessment tool">>, <<"course">>,
                       Str(Get(params, "courseName"))))

\* lines 348-354
query_consultation_contact(params) ==
    LET course == get_course(CourseName(params)).val
        ds == Items(course, "hasInstructorDetails")
    IN IF /\ Truthy(course) /\ ds # <<>>
          /\ (Truthy(Attr(ds[1], "ContactDetails"))
              \/ Truthy(Attr(ds[1], "ConsultationHours")))
       THEN Ok(<<"Contact: ">> \o Str(Attr(ds[1], "ContactDetails"))
               \o <<", Consultation Hours: ">>
               \o Str(Attr(ds[1], "ConsultationHours")))
       ELSE Ok(no_data(<<"consultation details">>, <<"instructor">>,
                       Str(Get(params, "courseName"))))

\* lines 357-363
query_instructor_office(params) ==
    LET course == get_course(CourseName(params)).val
        ds == Items(course, "hasInstructorDetails")
    IN IF Truthy(course) /\ ds # <<>> /\ Truthy(Attr(ds[1], "Office"))
       THEN Ok(<<"Office location: ">> \o Str(Attr(ds[1], "Office")))
       ELSE Ok(no_data(<<"office location">>, <<"instructor">>,
                       Str(Get(params, "courseName"))))

\* lines 366-383
query_courses_by_instructor_in_program(params) ==
    LET inst == get_instructor(InstructorName(params)).val
        program_param == sanitize_id(GetStr(params, "program"))
        in_program(c) ==
            /\ Items(c, "belongsToTerm") # <<>>
            /\ Items(Items(c, "belongsToTerm")[1], "belongsToProgram") # <<>>
            /\ Contains(Items(Items(c, "belongsToTerm")[1], "belongsToProgram")[1].name,
                        program_param)
        taught == Items(inst, "teachesCourse")
        found == course_titles(
                     Filter(taught, {i \in 1..Len(taught) : in_program(taught[i])}))
    IN IF ~(Truthy(inst) /\ hasattr(inst, "teachesCourse"))
       THEN Ok(not_found(<<"instructor">>, InstructorName(params)))
       ELSE IF found # <<>>
       THEN Ok(<<"Courses taught by ">> \o InstructorName(params) \o <<" in ">>
               \o Str(Get(params, "program")) \o <<": ">>
               \o join(<<", ">>, found) \o <<".">>)
       ELSE Ok(no_data(<<"courses">>, <<"instructor">>, InstructorName(params)))

\* lines 386-399
query_full_session_plan(params) ==
    LET course == get_course(CourseName(params)).val
        plans == Items(course, "hasSessionPlan")
        sessions ==
            IF \A i \in 1..Len(plans) : IntOk(Attr(plans[i], "Session"))
            THEN sorted_by_session(plans) ELSE plans
        has_topic(s) == Truthy(Attr(s, "Topic")) /\ Attr(s, "Topic") # S(NA)
        line(s) == <<"Session ">> \o Str(Attr(s, "Session")) \o <<": ">>
                   \o Str(Attr(s, "Module")) \o <<" - ">> \o Str(Attr(s, "Topic"))
                   \o <<" (Materials: ">> \o Str(Attr(s, "ReadingMaterial"))
                   \o <<")">>
        with_topic == Filter(sessions,
                             {i \in 1..Len(sessions) : has_topic(sessions[i])})
        topics == [k \in 1..Len(with_topic) |-> line(with_topic[k])]
    IN IF Truthy(course) /\ plans # <<>> /\ topics # <<>>
       THEN Ok(<<"Course topics:\n">> \o join(<<"\n">>, topics))
       ELSE Ok(no_data(<<"session plan">>, <<"course">>,
                       Str(Get(params, "courseName"))))

----------------------------------------------------------------------------
(* The dispatch table, lines 441-485 *)

\* the path and the data type of every intent served by handle_standard_query
STANDARD_QUERIES ==
    [GetCourseCredits |-> [path |-> <<"hasCourseMetadata", "CourseCredit">>,
                           data_type |-> <<"credit information">>],
     GetCourseType |-> [path |-> <<"hasCourseMetadata", "CourseType">>,
                        data_type |-> <<"course type">>],
     GetPrerequisites |-> [path |-> <<"hasCourseMetadata", "Prerequisites">>,
                           data_type |-> <<"prerequisites">>],
     GetSessionDuration |-> [path |-> <<"hasCourseMetadata", "SessionDuration">>,
                             data_type |-> <<"session duration">>],
     GetTotalSessions |-> [path |-> <<"hasCourseMetadata", "TotalSessions">>,
                           data_type |-> <<"total sessions">>],
     GetCourseOverview |-> [path |-> <<"hasBasicInfo", "Introduction">>,
                            data_type |-> <<"course overview">>],
     GetLearningOutcomes |-> [path |-> <<"hasBasicInfo", "LearningOutcomes">>,
                              data_type |-> <<"learning outcomes">>],
     GetPedagogy |-> [path |-> <<"hasBasicInfo", "PedagogyUsed">>,
                      data_type |-> <<"pedagogy information">>],
     GetInstructorContact |-> [path |-> <<"hasInstructorDetails", "ContactDetails">>,
                               data_type |-> <<"contact details">>],
     \* query_year_batch and query_sections, lines 243-248
     GetYearBatch |-> [path |-> <<"hasCourseMetadata", "YearBatch">>,
                       data_type |-> <<"year/batch">>],
     GetSections |-> [path |-> <<"hasCourseMetadata", "Sections">>,
                      data_type |-> <<"sections">>]]

\* intents whose path is fixed, and the one whose path ends in a parameter
FixedPathIntents == DOMAIN STANDARD_QUERIES
StandardIntents == FixedPathIntents \cup {"GetSessionInfo"}
ListIntents == {"GetInstructorForCourse", "GetCourseTopics", "GetAssessmentTools"}
InstructorIntents ==
    {"GetContactInstructor", "GetCoursesByInstructor", "GetCoursesByInstructorInProgram"}
ProgramTermIntents == {"GetCoursesInProgramTerm", "GetInstructorsInProgramTerm"}
BespokeIntents ==
    {"GetContactInstructor", "GetCoursesByInstructor", "GetFullSessionPlan",
     "GetAssessmentPercentage", "GetAssessmentDetails", "GetHighestAssessmentTool",
     "GetProgramForCourse", "GetTermForCourseProgram", "GetCoursesInProgramTerm",
     "GetInstructorsInProgramTerm", "GetInstructorOffice",
     "GetCoursesByInstructorInProgram", "GetConsultationContact"}

\* the keys of INTENT_HANDLERS
Intents == StandardIntents \cup ListIntents \cup BespokeIntents

\* f"hasSessionPlan.{p.get('sessionNumber')}".split('.')
session_info_path(params) ==
    <<"hasSessionPlan", AtomOf(Str(Get(params, "sessionNumber")))>>

\* INTENT_HANDLERS[intent](params): the outcomes the handler can have
INTENT_HANDLERS(intent, params) ==
    CASE intent \in FixedPathIntents ->
           {handle_standard_query(params, STANDARD_QUERIES[intent].path,
                                  STANDARD_QUERIES[intent].data_type)}
      [] intent = "GetSessionInfo" ->
           {handle_standard_query(params, session_info_path(params),
                                  <<"session info">>)}
      [] intent = "GetInstructorForCourse" ->
           {handle_list_query(params, <<"hasInstructorDetails">>,
                              <<"instructors">>, "format_instructor")}
      [] intent = "GetCourseTopics" ->
           {handle_list_query(params, <<"hasSessionPlan">>, <<"topics">>,
                              "format_topic")}
      [] intent = "GetAssessmentTools" ->
           {handle_list_query(params, <<"hasAssessment">>,
                              <<"assessment tools">>, "format_tool")}
      [] intent = "GetContactInstructor" -> {query_contact_instructor(params)}
      [] intent = "GetCoursesByInstructor" -> {query_courses_by_instructor(params)}
      [] intent = "GetFullSessionPlan" -> {query_full_session_plan(params)}
      [] intent = "GetAssessmentPercentage" -> {query_assessment_percentage(params)}
      [] intent = "GetAssessmentDetails" -> {query_assessment_details_full(params)}
      [] intent = "GetHighestAssessmentTool" -> {query_highest_assessment_tool(params)}
      [] intent = "GetProgramForCourse" -> {query_program_for_course(params)}
      [] intent = "GetTermForCourseProgram" -> {query_term_for_course_program(params)}
      [] intent = "GetCoursesInProgramTerm" -> {query_courses_in_program_term(params)}
      [] intent = "GetInstructorsInProgramTerm" ->
           query_instructors_in_program_term(params)
      [] intent = "GetInstructorOffice" -> {query_instructor_office(params)}
      [] intent = "GetCoursesByInstructorInProgram" ->
           {query_courses_by_instructor_in_program(params)}
      [] intent = "GetConsultationContact" -> {query_consultation_contact(params)}

----------------------------------------------------------------------------
(* The webhook endpoint, lines 490-529 *)

\* str(i) for an integer
IntText(i) == IF i < 0 THEN <<"-">> \o IntStr(0 - i) ELSE IntStr(i)

\* json.dumps of one value
json_value(v) ==
    CASE v.t = "int" -> IntText(v.i)
      [] v.t = "str" -> <<"\"">> \o v.s \o <<"\"">>
      [] OTHER -> <<"null">>

\* json.dumps(params)
json_dumps(d) ==
    <<"{">>
    \o join(<<", ">>,
            [i \in 1..Len(d) |-> <<"\"", d[i].n, "\"", ": ">> \o json_value(d[i].v)])
    \o <<"}">>

\* line 500: the first context whose parameters hold a page
page_of(contexts) ==
    LET hits == {i \in 1..Len(contexts) :
                    contexts[i].has_parameters /\ HasKey(contexts[i].parameters, "page")}
    IN IF hits = {} THEN IntV(0)
       ELSE Get(contexts[CHOOSE i \in hits : \A j \in hits : i <= j].parameters, "page")

\* lines 511-520
pagination_context(params) ==
    [name |-> "projects/${projectId}/agent/sessions/${sessionId}/contexts/pagination",
     lifespanCount |-> 5,
     parameters |-> [page |-> Get(params, "page"),
                     original_query |-> json_dumps(params)]]

\* the JSON the webhook returns
Reply(text, has_contexts, contexts) ==
    [sent |-> TRUE, fulfillmentText |-> text,
     has_contexts |-> has_contexts, outputContexts |-> contexts]

NoReply == [sent |-> FALSE, fulfillmentText |-> <<>>,
            has_contexts |-> FALSE, outputContexts |-> <<>>]

NoRequest == [intent |-> "", params |-> <<>>, contexts |-> <<>>]

\* the cache a handler leaves behind: each handler calls one resolver, once, or none
course_cache_after(intent, params) ==
    IF intent \in Intents \ (InstructorIntents \cup ProgramTermIntents)
    THEN get_course(CourseName(params)).cache
    ELSE course_cache

instr_cache_after(intent, params) ==
    IF intent \in InstructorIntents
    THEN get_instructor(InstructorName(params)).cache
    ELSE instr_cache

\* webhook(): one POST to /webhook, answered before the next one is taken
webhook(intent, params, contexts) ==
    LET paged == SetKey(params, "page", page_of(contexts))
    IN /\ ~response.sent
       /\ request' = [intent |-> intent, params |-> params, contexts |-> contexts]
       /\ IF intent \notin Intents
          THEN /\ response' = Reply(UNSUPPORTED, FALSE, <<>>)
               /\ UNCHANGED <<course_cache, instr_cache>>
          ELSE /\ \E outcome \in INTENT_HANDLERS(intent, paged) :
                     response' =
                         IF outcome.raised
                         THEN Reply(INTERNAL_ERROR, FALSE, <<>>)
                         ELSE Reply(outcome.text, TRUE, <<pagination_context(paged)>>)
               /\ course_cache' = course_cache_after(intent, paged)
               /\ instr_cache' = instr_cache_after(intent, paged)
       /\ UNCHANGED <<onto, hist, call, np, session>>

----------------------------------------------------------------------------
(* Ontologies.  The ontology file is not part of the program; these are the *)
(* individuals the model loads, after the classes of section 3 of the      *)
(* specification.  A profile says what the optional attributes hold.       *)

\* "absent": None; "na": the sentinel; "value": a value; "keyed": the
\* attributes that name things hold values and all others the sentinel;
\* "mixed": as "keyed", but every second other attribute holds a value
Profiles == {"absent", "na", "value", "keyed", "mixed"}

\* an attribute that names its individual (a title, an ordinal, a name)
KeyAttr(profile, v) ==
    CASE profile = "absent" -> NoneV
      [] profile = "na" -> S(NA)
      [] OTHER -> S(v)

\* any other optional attribute; slot numbers the attributes of a class
OptAttr(profile, slot, v) ==
    CASE profile = "absent" -> NoneV
      [] profile = "value" -> S(v)
      [] profile = "mixed" /\ slot % 2 = 0 -> S(v)
      [] OTHER -> S(NA)

COURSE_ID == <<"d", "b", "_", "1", "0", "1">>
PROGRAM_ID == <<"p", "g", "p">>
TERM_ID == <<"p", "g", "p", "_", "t", "e", "r", "m", "_", "2">>
INSTRUCTOR == <<"R", "a", "o">>

CourseMetadata(profile) ==
    N(<<"m", "1">>, "CourseMetadata",
      <<R("CourseCredit", OptAttr(profile, 1, <<"4">>)),
        R("CourseType", OptAttr(profile, 2, <<"c", "o", "r", "e">>)),
        R("Prerequisites", OptAttr(profile, 3, <<"m", "a", "t", "h">>)),
        R("SessionDuration", OptAttr(profile, 4, <<"9", "0">>)),
        R("TotalSessions", OptAttr(profile, 5, <<"2", "0">>)),
        R("YearBatch", OptAttr(profile, 6, <<"2", "5">>)),
        R("Sections", OptAttr(profile, 7, <<"A", "B">>)),
        R("CourseCodeTitle", KeyAttr(profile, <<"D", "B">>))>>)

BasicInfo(profile) ==
    N(<<"b", "1">>, "BasicInfo",
      <<R("Introduction", OptAttr(profile, 1, <<"i", "n", "t", "r", "o">>)),
        R("LearningOutcomes", OptAttr(profile, 2, <<"s", "q", "l">>)),
        R("PedagogyUsed", OptAttr(profile, 3, <<"l", "a", "b", "s">>))>>)

\* the i-th instructor detail of the course; the first carries the name the
\* requests ask for
InstructorAttrs(profile, i) ==
    <<R("Instructors", KeyAttr(profile, IF i = 1 THEN INSTRUCTOR
                                        ELSE <<"T", DigitSeq[i + 1]>>)),
      R("ContactDetails", OptAttr(profile, i, <<"r", "@", "x">>)),
      R("Office", OptAttr(profile, i + 1, <<"B", "2">>)),
      R("ConsultationHours", OptAttr(profile, i + 2, <<"5", "p", "m">>))>>

InstructorDetails(profile, i) ==
    N(<<"i", DigitSeq[i + 1]>>, "InstructorDetails", InstructorAttrs(profile, i))

\* session plans are stored unordered: the i-th of n stored is session n + 1 - i
SessionPlan(profile, i, n) ==
    N(<<"s", DigitSeq[i + 1]>>, "SessionPlan",
      <<R("Session", KeyAttr(profile, IntStr(n + 1 - i))),
        R("Module", OptAttr(profile, i, <<"M", DigitSeq[i + 1]>>)),
        R("Topic", OptAttr(profile, i + 1, <<"T", DigitSeq[i + 1]>>)),
        R("ReadingMaterial", OptAttr(profile, i + 2, <<"c", "h", DigitSeq[i + 1]>>))>>)

Assessment(tool, percentage, description) ==
    N(<<"a">>, "Assessment",
      <<R("AssessmentTool", tool), R("Percentage", percentage),
        R("AssessmentDescription", description)>>)

\* the i-th assessment of a profile
ProfileAssessment(profile, i) ==
    Assessment(KeyAttr(profile, <<"q", DigitSeq[i + 1]>>),
               OptAttr(profile, i + 1, <<DigitSeq[i + 1], "0", "%">>),
               OptAttr(profile, i, <<"d">>))

Program(profile, terms) ==
    N(PROGRAM_ID, "Program",
      <<R("programName", OptAttr(profile, 2, <<"P", "G", "P">>)),
        R("hasTerm", L(terms))>>)

Term(profile, courses) ==
    N(TERM_ID, "Term",
      <<R("belongsToProgram", L(<<Program(profile, <<>>)>>)),
        R("hasCourse", L(courses))>>)

\* a course with n instructor details, session plans and assessments (none
\* of them, and no metadata or basic info, when n = 0) and the given
\* assessments and terms
CourseWith(profile, n, assessments, terms) ==
    N(COURSE_ID, "Course",
      <<R("hasCourseMetadata", L(IF n = 0 THEN <<>> ELSE <<CourseMetadata(profile)>>)),
        R("hasBasicInfo", L(IF n = 0 THEN <<>> ELSE <<BasicInfo(profile)>>)),
        R("hasInstructorDetails", L([i \in 1..n |-> InstructorDetails(profile, i)])),
        R("hasSessionPlan", L([i \in 1..n |-> SessionPlan(profile, i, n)])),
        R("hasAssessment", L(assessments)),
        R("belongsToTerm", L(terms))>>)

\* the whole ontology around one course: the course, its first instructor
\* (who teaches it), its term and its program
OntologyOf(profile, n, assessments) ==
    LET inner == CourseWith(profile, n, assessments, <<Term(profile, <<>>)>>)
        term == Term(profile, <<inner>>)
    IN <<inner,
         N(<<"i", "0">>, "InstructorDetails",
           InstructorAttrs(profile, 1) \o <<R("teachesCourse", L(<<inner>>))>>),
         term,
         Program(profile, <<term>>)>>

Ontology(profile, n) ==
    OntologyOf(profile, n, [i \in 1..n |-> ProfileAssessment(profile, i)])

----------------------------------------------------------------------------
(* Requests *)

KNOWN_COURSE == <<"D", "B", " ", "1", "0", "1">>
UNKNOWN_COURSE == <<"X", "Y">>
INVALID_COURSE == <<"D", "B", "!">>
INVALID_INSTRUCTOR == <<"R", "!">>

CourseNames == {KNOWN_COURSE, UNKNOWN_COURSE, INVALID_COURSE}
InstructorNames == {INSTRUCTOR, INVALID_INSTRUCTOR}
ProgramNames == {<<"P", "G", "P">>, <<"z", "z">>}
TermNames == {<<"p", "g", "p", " ", "t", "e", "r", "m", " ", "2">>, <<"9">>}
ToolNames == {<<"Q", "1">>, <<"z", "z">>}

\* a context of an earlier turn
Context(parameters) ==
    [name |-> "pagination", has_parameters |-> TRUE, parameters |-> parameters]
OtherContext == [name |-> "other", has_parameters |-> FALSE, parameters |-> <<>>]
PageContext(page) == Context(<<R("page", IntV(page))>>)

\* the page cursors a list request may carry
Pages == (0 - 2)..((MaxItems \div PAGE_SIZE) + 2)

Req(intent, params, contexts) ==
    [intent |-> intent, params |-> params, contexts |-> contexts]

\* every request carries either no context or one with a page cursor
FewContexts == {<<>>, <<OtherContext, PageContext(1)>>}

StandardRequests ==
    {Req(i, <<R("courseName", S(c))>>, x) :
        i \in FixedPathIntents, c \in CourseNames, x \in FewContexts}
    \cup {Req("GetSessionInfo",
              <<R("courseName", S(c)), R("sessionNumber", S(<<"1">>))>>, x) :
             c \in CourseNames, x \in FewContexts}

ListContexts == {<<>>} \cup {<<PageContext(k)>> : k \in Pages}

ListRequests ==
    {Req(i, <<R("courseName", S(c))>>, x) :
        i \in ListIntents, c \in {KNOWN_COURSE, UNKNOWN_COURSE}, x \in ListContexts}

HighestRequests ==
    {Req("GetHighestAssessmentTool", <<R("courseName", S(c))>>, <<>>) :
        c \in {KNOWN_COURSE, UNKNOWN_COURSE}}

BespokeRequests ==
    {Req(i, <<R("courseName", S(c))>>, <<>>) :
        i \in {"GetFullSessionPlan", "GetAssessmentDetails",
               "GetHighestAssessmentTool", "GetProgramForCourse",
               "GetInstructorOffice", "GetConsultationContact"},
        c \in CourseNames}
    \cup {Req("GetAssessmentPercentage",
              <<R("courseName", S(c)), R("assessmentTool", S(t))>>, <<>>) :
             c \in CourseNames, t \in ToolNames}
    \cup {Req("GetTermForCourseProgram",
              <<R("courseName", S(c)), R("program", S(g))>>, <<>>) :
             c \in CourseNames, g \in ProgramNames}
    \cup {Req(i, <<R("instructorName", S(n))>>, <<>>) :
             i \in {"GetContactInstructor", "GetCoursesByInstructor"},
             n \in InstructorNames}
    \cup {Req("GetCoursesByInstructorInProgram",
              <<R("instructorName", S(n)), R("program", S(g))>>, <<>>) :
             n \in InstructorNames, g \in ProgramNames}
    \cup {Req("GetCoursesInProgramTerm",
              <<R("program", S(g)), R("term", S(t))>>, <<>>) :
             g \in ProgramNames, t \in TermNames}
    \cup {Req("GetInstructorsInProgramTerm", <<R("program", S(g))>>, <<>>) :
             g \in ProgramNames}
    \cup {Req("GetInstructorsInProgramTerm", <<R("term", S(t))>>, <<>>) :
             t \in TermNames}

UnknownRequests ==
    {Req(i, <<R("courseName", S(KNOWN_COURSE))>>, x) :
        i \in {"", "GetWeather", "GetCourseCredit"}, x \in FewContexts}

----------------------------------------------------------------------------
(* Actions *)

Serve(requests) == \E r \in requests : webhook(r.intent, r.params, r.contexts)

WebhookStandard == Serve(StandardRequests)
WebhookList == Serve(ListRequests)
WebhookBespoke == Serve(BespokeRequests)
WebhookUnknown == Serve(UnknownRequests)
WebhookHighest == Serve(HighestRequests)

\* the answer has gone out: the process keeps nothing of the exchange but
\* what its caches hold
Deliver ==
    /\ response.sent
    /\ request' = NoRequest
    /\ response' = NoReply
    /\ UNCHANGED <<onto, course_cache, instr_cache, hist, call, np, session>>

NoCall == [fn |-> "", key |-> <<>>, hit |-> FALSE, searched |-> FALSE,
           val |-> NoneV, n |-> 0]
NoNp == [obj |-> NoneV, path |-> <<>>, done |-> FALSE, result |-> NoneV]
NoHist == [course |-> <<>>, instr |-> <<>>]

\* no request is being served and no conversation is under way
Idle ==
    /\ call = NoCall
    /\ request = NoRequest
    /\ response = NoReply
    /\ session = <<>>

\* the process after start-up, with the given ontology loaded
Started(ontologies) ==
    /\ onto \in ontologies
    /\ course_cache = <<>>
    /\ instr_cache = <<>>
    /\ hist = NoHist
    /\ Idle
    /\ np = NoNp

\* every intent, on the small ontologies
Init == Started({Ontology(p, n) : p \in Profiles, n \in 0..SmallItems})
Next == WebhookStandard \/ WebhookList \/ WebhookBespoke \/ WebhookUnknown
        \/ Deliver
Spec == Init /\ [][Next]_vars

\* the standard queries
InitStandard == Started({Ontology(p, n) : p \in Profiles, n \in 0..1})
NextStandard == WebhookStandard \/ Deliver
SpecStandard == InitStandard /\ [][NextStandard]_vars

\* the list queries, on courses with up to MaxItems items
InitList == Started({Ontology(p, n) : p \in Profiles, n \in 0..MaxItems})
NextList == WebhookList \/ Deliver
SpecList == InitList /\ [][NextList]_vars

\* the highest-weight query, on courses whose assessments carry every kind
\* of percentage
PercentageChoices ==
    {NoneV, S(NA), S(<<"a", "b", "c">>), S(<<"2", "0", "%">>),
     S(<<"3", "0", "%">>), S(<<"3", "0", ".", "0">>),
     S(<<"5", "0", ".", "5", "%">>), S(<<"~", "7", ".">>)}

AssessmentLists ==
    UNION {[1..n -> PercentageChoices] : n \in 1..MaxAssessments}

\* the i-th assessment is tool q<i>
AssessmentsOf(percentages) ==
    [i \in 1..Len(percentages) |->
        Assessment(S(<<"q", DigitSeq[i + 1]>>), percentages[i], S(<<"d">>))]

InitHighest ==
    Started({OntologyOf("value", 1, AssessmentsOf(q)) : q \in AssessmentLists}
            \cup {Ontology("value", 0)})
NextHighest == WebhookHighest \/ Deliver
SpecHighest == InitHighest /\ [][NextHighest]_vars

----------------------------------------------------------------------------
(* get_nested_property on its own *)

SegmentNames == <<"r1", "r2", "r3", "r4", "r5", "r6">>

LeafNode == N(<<"x">>, "Thing", <<>>)

\* what the last relation of a path can hold
FinalValues ==
    {NoneV, S(NA), S(<<"v">>), S(<<>>), L(<<>>), L(<<S(NA)>>), L(<<S(<<"v">>)>>),
     L(<<S(NA), S(<<"v">>)>>), L(<<S(<<"v">>), S(NA)>>), LeafNode}

\* NodesAt(d): the individuals from which d relations of the path remain,
\* the relation absent or holding any of ValuesAt(d - 1)
RECURSIVE NodesAt(_), ValuesAt(_)
NodesAt(d) ==
    {LeafNode}
    \cup {N(<<"x">>, "Thing", <<R(SegmentNames[MaxSegments + 1 - d], v)>>) :
             v \in ValuesAt(d - 1)}

\* a relation on the chain holds an individual, a list of them (empty, of
\* one, of two), None or a string
ValuesAt(d) ==
    IF d = 0 THEN FinalValues
    ELSE NodesAt(d)
         \cup {L(<<>>), NoneV, S(<<"v">>), S(NA)}
         \cup {L(<<n>>) : n \in NodesAt(d)}
         \cup {L(<<n, LeafNode>>) : n \in NodesAt(d)}

PathInputs ==
    {[obj |-> o, path |-> SubSeq(SegmentNames, 1, k), done |-> FALSE,
      result |-> NoneV] : o \in NodesAt(MaxSegments), k \in 1..MaxSegments}

InitPath ==
    /\ onto = <<>>
    /\ course_cache = <<>>
    /\ instr_cache = <<>>
    /\ hist = NoHist
    /\ Idle
    /\ np \in PathInputs

\* one call get_nested_property(obj, path)
Resolve ==
    /\ ~np.done
    /\ np' = [np EXCEPT !.done = TRUE,
                        !.result = get_nested_property(np.obj, np.path)]
    /\ UNCHANGED <<onto, course_cache, instr_cache, hist, call, request, response,
                   session>>

SpecPath == InitPath /\ [][Resolve]_vars

----------------------------------------------------------------------------
(* The resolvers called on their own *)

\* a name that passes validation and names nothing in the ontology
FillerName(i) == <<"f">> \o IntStr(i)

\* a cache after maxsize calls with distinct filler names
FullCache(maxsize) == [i \in 1..maxsize |-> [key |-> FillerName(i), val |-> NoneV]]

Keys(cache) == [i \in 1..Len(cache) |-> cache[i].key]

CourseCallInputs ==
    {KNOWN_COURSE, COURSE_ID, INVALID_COURSE, <<>>, FillerName(1),
     Rep(<<"a">>, MAX_INPUT_LENGTH), Rep(<<"a">>, MAX_INPUT_LENGTH + 1)}

InstructorCallInputs ==
    {INSTRUCTOR, <<" ">> \o INSTRUCTOR, INVALID_INSTRUCTOR, FillerName(1),
     Rep(<<"a">>, MAX_INPUT_LENGTH + 1)}

\* the caches empty (after start-up) or full (after maxsize distinct names)
InitCache ==
    /\ onto = Ontology("value", 1)
    /\ course_cache \in {<<>>, FullCache(COURSE_CACHE_MAXSIZE)}
    /\ instr_cache \in {<<>>, FullCache(INSTRUCTOR_CACHE_MAXSIZE)}
    /\ hist = [course |-> Keys(course_cache), instr |-> Keys(instr_cache)]
    /\ Idle
    /\ np = NoNp

\* one call get_course(name)
GetCourseCall ==
    \E name \in CourseCallInputs :
        LET r == get_course(name)
        IN /\ call.n < MaxCalls
           /\ course_cache' = r.cache
           /\ call' = [fn |-> "get_course", key |-> name, hit |-> r.hit,
                       searched |-> r.searched, val |-> r.val, n |-> call.n + 1]
           /\ hist' = [hist EXCEPT !.course = Append(@, name)]
           /\ UNCHANGED <<onto, instr_cache, request, response, np, session>>

\* one call get_instructor(name)
GetInstructorCall ==
    \E name \in InstructorCallInputs :
        LET r == get_instructor(name)
        IN /\ call.n < MaxCalls
           /\ instr_cache' = r.cache
           /\ call' = [fn |-> "get_instructor", key |-> name, hit |-> r.hit,
                       searched |-> r.searched, val |-> r.val, n |-> call.n + 1]
           /\ hist' = [hist EXCEPT !.instr = Append(@, name)]
           /\ UNCHANGED <<onto, course_cache, request, response, np, session>>

NextCache == GetCourseCall \/ GetInstructorCall
SpecCache == InitCache /\ [][NextCache]_vars

----------------------------------------------------------------------------
(* The turns of one conversation.  The webhook keeps no state between      *)
(* turns: the dialogue platform stores the output contexts of an answer    *)
(* and hands them back with the next request, the page cursor moved when   *)
(* the user said "next page" or "previous page".                           *)

\* the platform's copy of an emitted context, its cursor moved by d
HandedBack(oc, d) ==
    Context(<<R("page", IntV(oc.parameters.page.i + d)),
              R("original_query", S(oc.parameters.original_query))>>)

\* the contexts of the next request: none at the first turn, then the context
\* emitted last with the cursor as it is, one further or one back
TurnContexts ==
    IF session = <<>> THEN {<<>>}
    ELSE {<<HandedBack(session[1], d)>> :
             d \in {d \in {0 - 1, 0, 1} : session[1].parameters.page.i + d \in Pages}}

TurnRequests ==
    {Req(i, <<R("courseName", S(c))>>, x) :
        i \in ListIntents, c \in {KNOWN_COURSE, UNKNOWN_COURSE}, x \in TurnContexts}

WebhookTurn == Serve(TurnRequests)

\* the answer has gone out and the platform keeps its output contexts (those
\* it held before when the answer carries none)
HandBack ==
    /\ response.sent
    /\ session' = IF response.has_contexts THEN response.outputContexts ELSE session
    /\ request' = NoRequest
    /\ response' = NoReply
    /\ UNCHANGED <<onto, course_cache, instr_cache, hist, call, np>>

InitTurns == Started({Ontology("value", n) : n \in 0..MaxItems})
NextTurns == WebhookTurn \/ HandBack
SpecTurns == InitTurns /\ [][NextTurns]_vars

----------------------------------------------------------------------------
(* Claims *)

\* the request being answered
Answered(intents) == response.sent /\ request.intent \in intents

\* the course individual a raw name resolves to (None when it does not)
Resolved(name) == get_course_body(name).val
ResolvedInstructor(name) == get_instructor_body(name).val

RequestCourse == Str(Get(request.params, "courseName"))
RequestInstructor == Str(Get(request.params, "instructorName"))
RequestPage == page_of(request.contexts).i

\* the relation and the formatter of each list intent
ListRelation(intent) ==
    CASE intent = "GetInstructorForCourse" -> "hasInstructorDetails"
      [] intent = "GetCourseTopics" -> "hasSessionPlan"
      [] intent = "GetAssessmentTools" -> "hasAssessment"

\* the item list a list query pages: one formatted item per related individual
RequestItems ==
    LET xs == Items(Resolved(RequestCourse), ListRelation(request.intent))
    IN [i \in 1..Len(xs) |->
           CASE request.intent = "GetInstructorForCourse" -> format_instructor(xs[i])
             [] request.intent = "GetCourseTopics" -> format_topic(xs[i])
             [] request.intent = "GetAssessmentTools" -> format_tool(xs[i])]

\* ceil(n / 3)
PageCount(n) == (n + 2) \div 3

\* the index max(0, min(p, count - 1))
ShownIndex(p, count) == IF p < 0 THEN 0 ELSE IF p > count - 1 THEN count - 1 ELSE p

\* the items of the page at index k: items 3k+1 .. 3k+3, as far as there are
PageItems(items, k) ==
    [i \in 1..(IF 3 * k + 3 <= Len(items) THEN 3 ELSE Len(items) - 3 * k) |->
        items[3 * k + i]]

\* the text of a page of strings, with the footer when there are several pages
PageText(items, k) ==
    join(<<"\n">>, [i \in 1..Len(PageItems(items, k)) |-> PageItems(items, k)[i].s])
    \o (IF PageCount(Len(items)) > 1
        THEN <<"\n\n(Page ">> \o IntStr(k + 1) \o <<"/">>
             \o IntStr(PageCount(Len(items)))
             \o <<" - Say 'next page' or 'previous page')">>
        ELSE <<>>)

Renderable(items, k) ==
    \A i \in 1..Len(PageItems(items, k)) : PageItems(items, k)[i].t = "str"

StandardValue(intent, course) ==
    LET path == STANDARD_QUERIES[intent].path
        owners == Items(course, path[1])
    IN IF owners = <<>> THEN NoneV ELSE Attr(owners[1], path[2])

IsMissing(v) == v = NoneV \/ v = S(<<>>) \/ v = S(NA)

\* C2: a standard intent answers with the not_found template when the course
\* does not resolve, with the no_data template when the value on its path is
\* Missing, and with the value otherwise; the sentinel is never the answer.
C2_StandardOutcomes ==
    Answered(FixedPathIntents)
    => LET course == Resolved(RequestCourse)
           v == StandardValue(request.intent, course)
       IN /\ response.fulfillmentText =
                IF course = NoneV
                THEN <<"I couldn't find ", "course", " '">> \o RequestCourse \o <<"'.">>
                ELSE IF IsMissing(v)
                THEN <<"No ">> \o STANDARD_QUERIES[request.intent].data_type
                     \o <<" available for ", "course", " '">> \o RequestCourse
                     \o <<"'.">>
                ELSE v.s
          /\ response.fulfillmentText # NA

\* C2 witness: GetPrerequisites on a course whose Prerequisites is "NA"
C2_Witness ==
    /\ Answered({"GetPrerequisites"})
    /\ Resolved(RequestCourse) # NoneV
    /\ StandardValue("GetPrerequisites", Resolved(RequestCourse)) = S(NA)
    /\ response.fulfillmentText =
           <<"No ", "prerequisites", " available for ", "course", " '">>
           \o KNOWN_COURSE \o <<"'.">>

\* C3: GetCourseCredits on a course that resolves and whose CourseCredit is
\* "4" answers "4 credits."
C3_CreditsText ==
    (/\ Answered({"GetCourseCredits"})
     /\ Resolved(RequestCourse) # NoneV
     /\ StandardValue("GetCourseCredits", Resolved(RequestCourse)) = S(<<"4">>))
    => response.fulfillmentText = <<"4", " credits.">>

\* resolvePath of the specification (section 4.2) from segment i on: a list
\* on the chain stands for its first element, an absent relation or an empty
\* list gives Missing, and so does the sentinel reached at the end, whether
\* it is stored as a scalar or as the first element of a list
RECURSIVE resolvePath(_, _, _)
resolvePath(cur, path, i) ==
    IF IsList(cur) /\ cur.items = <<>> THEN NoneV
    ELSE LET first == IF IsList(cur) THEN cur.items[1] ELSE cur
         IN IF i > Len(path)
            THEN (IF first = S(NA) THEN NoneV ELSE first)
            ELSE IF first.t # "node" THEN NoneV
            ELSE IF \A j \in 1..Len(first.rel) : first.rel[j].n # path[i] THEN NoneV
            ELSE resolvePath(
                     first.rel[CHOOSE j \in 1..Len(first.rel) :
                                   first.rel[j].n = path[i]].v,
                     path, i + 1)

\* C4: get_nested_property returns a value or Missing: Missing whenever a
\* relation on the chain is absent, a list on the chain is empty or the value
\* reached is the sentinel "NA", stored as a scalar or as the first element of
\* a list-valued final relation; the sentinel is never returned.
C4_SentinelIsMissing ==
    np.done => /\ np.result = resolvePath(np.obj, np.path, 1)
               /\ np.result # S(NA)

\* the weight, in tenths, that each percentage string of PercentageChoices
\* spells (its leading run of digits with an optional decimal part); 0 - 1
\* for a string without digits
WeightInTenths(percentage) ==
    CASE percentage = S(<<"2", "0", "%">>) -> 200
      [] percentage = S(<<"3", "0", "%">>) -> 300
      [] percentage = S(<<"3", "0", ".", "0">>) -> 300
      [] percentage = S(<<"5", "0", ".", "5", "%">>) -> 505
      [] percentage = S(<<"~", "7", ".">>) -> 70
      [] OTHER -> 0 - 1

\* how Python prints that weight
WeightText(tenths) == IntStr(tenths \div 10) \o <<".">> \o IntStr(tenths % 10)

RequestAssessments == Items(Resolved(RequestCourse), "hasAssessment")

\* C5: on a course with an assessment whose Percentage holds a number, the
\* highest-weight query reports the tool of the first assessment, in the
\* course's order, whose number is the maximum; percentages without a number
\* are skipped and do not count as zero.
C5_HighestTool ==
    LET as == RequestAssessments
        w(i) == WeightInTenths(Attr(as[i], "Percentage"))
        numbered == {i \in 1..Len(as) : w(i) >= 0}
    IN (/\ Answered({"GetHighestAssessmentTool"})
        /\ Resolved(RequestCourse) # NoneV
        /\ numbered # {})
       => \E i \in numbered :
             /\ \A j \in numbered : w(j) <= w(i)
             /\ \A j \in numbered : j < i => w(j) < w(i)
             /\ response.fulfillmentText =
                    <<"Highest weighted assessment tool: ">>
                    \o Attr(as[i], "AssessmentTool").s
                    \o <<" (">> \o WeightText(w(i)) \o <<"%).">>

\* C5 witness: a percentage without a number first, then two equal weights:
\* the first of the two is reported
C5_Witness ==
    /\ Answered({"GetHighestAssessmentTool"})
    /\ Len(RequestAssessments) = 3
    /\ Attr(RequestAssessments[1], "Percentage") = S(<<"a", "b", "c">>)
    /\ Attr(RequestAssessments[2], "Percentage") = S(<<"3", "0", "%">>)
    /\ Attr(RequestAssessments[3], "Percentage") = S(<<"3", "0", ".", "0">>)
    /\ response.fulfillmentText =
           <<"Highest weighted assessment tool: ", "q", "2", " (",
             "3", "0", ".", "0", "%).">>

\* the cap distinct strings used last in a history of calls, from call i back
RECURSIVE MostRecent(_, _, _, _)
MostRecent(h, i, acc, cap) ==
    IF i = 0 \/ Cardinality(acc) >= cap THEN acc
    ELSE MostRecent(h, i - 1, acc \cup {h[i]}, cap)

\* a cache of capacity cap after the calls h: one entry for each of the cap
\* distinct raw strings used last, so that what a full cache drops is its
\* least recently used entry
IsLru(cache, h, cap) ==
    /\ Len(cache) <= cap
    /\ Cardinality(SeqRange(Keys(cache))) = Len(cache)
    /\ SeqRange(Keys(cache)) = MostRecent(h, Len(h), {}, cap)

\* the last call of a resolver, given the calls h made to it, this one
\* included: it is a hit exactly when its raw string is among the cap used
\* last before it, a hit does not search the ontology, and it returns what
\* the lookup gives for the string
IsCachedCall(h, cap, resolved) ==
    LET before == SubSeq(h, 1, Len(h) - 1)
    IN /\ call.hit = (call.key \in MostRecent(before, Len(before), {}, cap))
       /\ call.hit => ~call.searched
       /\ call.val = resolved

\* C6: each resolver is an LRU cache keyed by the raw string over the lookup:
\* at most 100 courses and 50 instructors are cached, a call with a cached
\* string returns the resolved node (or None) without searching, and an
\* insert into a full cache drops the least recently used entry.
C6_LruCaches ==
    /\ IsLru(course_cache, hist.course, 100)
    /\ IsLru(instr_cache, hist.instr, 50)
    /\ call.fn = "get_course"
       => IsCachedCall(hist.course, 100, Resolved(call.key))
    /\ call.fn = "get_instructor"
       => IsCachedCall(hist.instr, 50, ResolvedInstructor(call.key))

\* C6 witness: in a full course cache the oldest entry is used again and then
\* a new name is resolved: the entry dropped is the second oldest
C6_Witness ==
    /\ Len(hist.course) = 102
    /\ hist.course[101] = FillerName(1)
    /\ call.fn = "get_course" /\ call.key = KNOWN_COURSE /\ ~call.hit
    /\ Len(course_cache) = 100
    /\ FillerName(1) \in SeqRange(Keys(course_cache))
    /\ FillerName(2) \notin SeqRange(Keys(course_cache))
    /\ call.val = onto[1]

Whitespace == {" ", "\t", "\n", "\r", "\f"}

\* empty, longer than 50, or holding a character outside the allowed ones
Rejected(value, allowed) ==
    \/ value = <<>>
    \/ Len(value) > 50
    \/ \E i \in 1..Len(value) : value[i] \notin allowed

\* the last call returned NotFound without searching whenever its input is
\* rejected, and searched only for an input that is not
RejectsExactly(allowed) ==
    call.fn # ""
    => /\ Rejected(call.key, allowed) => (call.val = NoneV /\ ~call.searched)
       /\ call.searched => ~Rejected(call.key, allowed)

\* C7, as claimed: get_course and get_instructor return NotFound without
\* searching for every input that is empty, longer than 50 characters or holds
\* a character other than a letter, a digit, whitespace or a hyphen.
C7_Original ==
    RejectsExactly(LowerChars \cup UpperChars \cup DigitChars \cup Whitespace \cup {"-"})

\* C7, amended: ... other than a letter, a digit, an underscore, whitespace or
\* a hyphen.
C7_Validation ==
    RejectsExactly(LowerChars \cup UpperChars \cup DigitChars \cup Whitespace
                   \cup {"-", "_"})

\* C7 witness: a name of 51 letters is rejected without a search
C7_Witness ==
    /\ call.fn = "get_course" /\ Len(call.key) = 51 /\ ~call.hit
    /\ call.val = NoneV /\ ~call.searched

\* C8: when the named course or instructor does not resolve, every dispatched
\* handler answers with the not_found template naming the kind and the input,
\* and no handler answers with a negative text outside the two templates.
C8_OnlyTwoNegatives ==
    Answered(Intents)
    => /\ (HasKey(request.params, "courseName") /\ Resolved(RequestCourse) = NoneV)
          => response.fulfillmentText =
                 <<"I couldn't find ", "course", " '">> \o RequestCourse \o <<"'.">>
       /\ (HasKey(request.params, "instructorName")
           /\ ResolvedInstructor(RequestInstructor) = NoneV)
          => response.fulfillmentText =
                 <<"I couldn't find ", "instructor", " '">> \o RequestInstructor
                 \o <<"'.">>
       /\ response.fulfillmentText \notin
              {<<"Program not found.">>, <<"Course not found in program.">>,
               <<"No assessment details available.">>,
               <<"No courses found for the specified program and term.">>,
               <<"Sorry, I encountered an error processing your request.">>}

\* C9: the text answered for a course or instructor name that fails
\* validation does not contain that name.
C9_InvalidNameNotEchoed ==
    Answered(Intents)
    => /\ (HasKey(request.params, "courseName") /\ RequestCourse # <<>>
           /\ ~validate_input(RequestCourse))
          => ~Contains(response.fulfillmentText, RequestCourse)
       /\ (HasKey(request.params, "instructorName") /\ RequestInstructor # <<>>
           /\ ~validate_input(RequestInstructor))
          => ~Contains(response.fulfillmentText, RequestInstructor)

\* C10: no answer of a dispatched handler contains the sentinel "NA".
C10_SentinelNotEchoed ==
    Answered(Intents) => ~Contains(response.fulfillmentText, NA)

\* C11: a request whose intent is not a key of the dispatch table is answered
\* with the text "This query type is not supported yet." and without output
\* contexts, whatever its parameters and contexts are, and no resolver is
\* called for it: both caches are as they were.
C11_UnknownIntent ==
    [][(/\ ~response.sent /\ response'.sent
        /\ request'.intent \notin Intents)
       => /\ response'.fulfillmentText = <<"This query type is not supported yet.">>
          /\ ~response'.has_contexts
          /\ response'.outputContexts = <<>>
          /\ course_cache' = course_cache
          /\ instr_cache' = instr_cache]_vars

\* C11 witness: an intent one letter short of a key, with a page cursor in
\* its contexts and a known course in its parameters
C11_Witness ==
    /\ response.sent
    /\ request.intent = "GetCourseCredit"
    /\ HasKey(request.params, "courseName")
    /\ page_of(request.contexts) = IntV(1)
    /\ response.fulfillmentText = <<"This query type is not supported yet.">>
    /\ response.outputContexts = <<>>
    /\ course_cache = <<>>

\* C12: over the turns of a conversation in which the platform hands back the
\* context emitted last, the output context of a list query that shows a page
\* has lifespan 5, carries as page cursor the zero-based index of the page
\* shown (the index received, clamped into [0, pageCount - 1]) and carries the
\* serialized parameters of the request.
C12_PageCursor ==
    (/\ Answered(ListIntents) /\ response.has_contexts
     /\ Resolved(RequestCourse) # NoneV /\ RequestItems # <<>>)
    => /\ Len(response.outputContexts) = 1
       /\ response.outputContexts[1].lifespanCount = 5
       /\ response.outputContexts[1].parameters.page =
              IntV(ShownIndex(RequestPage, PageCount(Len(RequestItems))))
       /\ Contains(response.outputContexts[1].parameters.original_query,
                   <<"\"", "courseName", "\"", ": ", "\"">> \o RequestCourse
                   \o <<"\"">>)

\* the session plans of the course asked about whose Session, as a string, is
\* the session number asked for
RequestedSessions ==
    LET plans == Items(Resolved(RequestCourse), "hasSessionPlan")
    IN {plans[i] : i \in {i \in 1..Len(plans) :
                             Attr(plans[i], "Session")
                                 = Get(request.params, "sessionNumber")}}

\* C13: GetSessionInfo on a resolved course with a session plan whose Session
\* equals the requested sessionNumber answers with a summary of that plan: the
\* answer holds the module, the topic and the reading material of the plan,
\* each unless it is the sentinel "NA", and holds no sentinel.
C13_SessionSummary ==
    (/\ Answered({"GetSessionInfo"})
     /\ Resolved(RequestCourse) # NoneV
     /\ RequestedSessions # {})
    => /\ ~Contains(response.fulfillmentText, NA)
       /\ \E plan \in RequestedSessions :
             \A field \in {"Module", "Topic", "ReadingMaterial"} :
                 (Attr(plan, field).t = "str" /\ Attr(plan, field) # S(NA))
                 => Contains(response.fulfillmentText, Attr(plan, field).s)

====
